---- MODULE Spec2Model ----
(***************************************************************************)
(* A model of mlqm/core.py: the PES generate/run bookkeeping and the       *)
(* Dataset container (load, find_trainers, train).                         *)
(*                                                                         *)
(* Python values are tagged records so that False, None and lists can be   *)
(* compared; mappings (setup, data, kwargs) are functions whose DOMAIN is  *)
(* the set of keys present.  Strings that the code inspects character by   *)
(* character (traintype) are sequences of one-character strings.           *)
(***************************************************************************)
EXTENDS Integers, Sequences, FiniteSets, TLC

VARIABLES
    inpf,      \* Dataset.inpf: "None" or a file path
    setup,     \* Dataset.setup: mapping of hyperparameters
    data,      \* Dataset.data: mapping, may hold 'trainers'
    grand,     \* Dataset.grand: row counts of representations / values
    cachedFor, \* rows of the grand set when data['trainers'] was computed
    last,      \* what the most recent Dataset call did
    pes,       \* the PES object's fields
    plast,     \* what the most recent PES call did
    hist       \* counts of PES calls made so far

vars == <<inpf, setup, data, grand, cachedFor, last, pes, plast, hist>>
dsVars == <<inpf, setup, data, grand, cachedFor, last>>
pesVars == <<pes, plast, hist>>

\* ------------------------------------------------------------- bounds
MaxN == 3        \* largest number of rows in the grand set
MaxPts == 3      \* largest number of points on the PES
MaxCalls == 3    \* PES.generate / PES.run calls followed per behaviour

\* ------------------------------------------------------ Python values
PyFalse == [t |-> "False", v |-> <<>>]
PyNone == [t |-> "None", v |-> <<>>]
PyList(s) == [t |-> "list", v |-> s]

NoneRows == -1   \* grand["representations"] is None

Put(d, k, x) == [y \in (DOMAIN d) \cup {k} |-> IF y = k THEN x ELSE d[y]]

\* -------------------------------------------------------- str.lower()
UpperChars == <<"A","B","C","D","E","F","G","H","I","J","K","L","M",
                "N","O","P","Q","R","S","T","U","V","W","X","Y","Z">>
LowerChars == <<"a","b","c","d","e","f","g","h","i","j","k","l","m",
                "n","o","p","q","r","s","t","u","v","w","x","y","z">>

\* The lowercase letter of each uppercase letter.
LowerTable ==
    [c \in { UpperChars[i] : i \in 1..26 } |->
        LowerChars[CHOOSE i \in 1..26 : UpperChars[i] = c]]

\* Characters without a lowercase form are kept.
LowerChar(c) == IF c \in DOMAIN LowerTable THEN LowerTable[c] ELSE c

\* The name compared as written, case kept.
LowerIdentity(s) == s

Lower(s) == [i \in 1..Len(s) |-> LowerChar(s[i])]

KMeansNames == { <<"k","m","e","a","n","s">>,
                 <<"k","-","m","e","a","n","s">>,
                 <<"k","_","m","e","a","n","s">> }

KrrNames == { <<"k","r","r">>,
              <<"k","e","r","n","e","l","_","r","i","d","g","e">> }

\* The traintype strings callers pass: the supported names, case variants
\* of them, and names neither method knows.
Names == KMeansNames \cup KrrNames \cup
         { <<"K","_","M","e","a","n","s">>,
           <<"K","R","R">>,
           <<"k","m","e","a","n">> }

DefaultK == 30

\* ----------------------------------------------- the cluster sampler
\* train.k_means_loop(reps, M, K, **kwargs) -> (t_map, close_pts).
\* t_map[c] is cluster c's candidate list of (rank, index) pairs, nearest
\* first; close_pts[c] is the 0-based rank of the chosen candidate.

Members(a, c, N) == { i \in 0..(N-1) : a[i] = c }

RECURSIVE Ordered(_, _)
Ordered(S, ord) ==
    IF S = {} THEN <<>>
    ELSE LET x == CHOOSE e \in S : \A f \in S : IF ord = "asc" THEN e <= f ELSE e >= f
         IN <<x>> \o Ordered(S \ {x}, ord)

\* A cluster's candidates in one of the two distance orders followed.
ClusterList(S, ord) ==
    LET idx == Ordered(S, ord)
    IN [i \in 1..Len(idx) |-> <<i - 1, idx[i]>>]

\* One in-range rank for each cluster of tm.
RECURSIVE RankSeqs(_)
RankSeqs(tm) ==
    IF tm = <<>> THEN { <<>> }
    ELSE { Append(p, r) : p \in RankSeqs(SubSeq(tm, 1, Len(tm) - 1)),
                          r \in 0..(Len(tm[Len(tm)]) - 1) }

Returned(tm, cp) == [raised |-> "", t_map |-> tm, close_pts |-> cp]
Raised(e) == [raised |-> e, t_map |-> <<>>, close_pts |-> <<>>]
NotCalled == Raised("not called")

\* Every well-formed answer for N rows and M clusters: M non-empty
\* clusters that partition 0..N-1 and one in-range rank per cluster.
Partitions(N, M) ==
    LET maps == { [c \in 1..M |-> ClusterList(Members(a, c, N), ord)] :
                    a \in { f \in [0..(N-1) -> 1..M] :
                              \A c \in 1..M : Members(f, c, N) # {} },
                    ord \in {"asc", "desc"} }
    IN UNION { { Returned(tm, cp) : cp \in RankSeqs(tm) } : tm \in maps }

\* The sampler as the specification describes it; K caps its iterations
\* and does not change the shape of its answer.
k_means_loop(N, M, K) ==
    IF N = NoneRows THEN {Raised("TypeError")}
    ELSE IF M <= 0 \/ M > N THEN {Raised("InvalidClusterCount")}
    ELSE Partitions(N, M)

\* Ways an answer can be malformed: a cluster missing, a rank past the end
\* of its cluster, a cluster repeated.
Corruptions(o) ==
    LET m == Len(o.t_map)
    IN {o} \cup
       (IF m = 0 THEN {}
        ELSE { Returned(SubSeq(o.t_map, 1, m - 1), SubSeq(o.close_pts, 1, m - 1)),
               Returned(o.t_map, [o.close_pts EXCEPT ![m] = Len(o.t_map[m])]),
               Returned([o.t_map EXCEPT ![m] = o.t_map[1]],
                        [o.close_pts EXCEPT ![m] = o.close_pts[1]]) })

\* The answer that deals the rows out to m clusters in turn and chooses
\* the nearest candidate of each.
RoundRobin(N, m) ==
    LET tm == [c \in 1..m |-> ClusterList({ i \in 0..(N-1) : (i % m) + 1 = c }, "asc")]
    IN Returned(tm, [c \in 1..m |-> 0])

\* A sampler that keeps no promise: it may raise on any input, answer for
\* a clamped cluster count, or return a malformed answer.
k_means_loop_unreliable(N, M, K) ==
    {Raised("SamplerError")} \cup k_means_loop(N, M, K) \cup
    (IF N = NoneRows THEN {}
     ELSE LET m == IF M < 0 THEN 0 ELSE IF M > N THEN N ELSE M
          IN IF m = 0 THEN {Returned(<<>>, <<>>)}
             ELSE Corruptions(RoundRobin(N, m)))

\* ------------------------------------------------- Dataset.find_trainers
\* The cache test with the False check the wrong way round.
CacheHitInverted(d) == "trainers" \in DOMAIN d /\ d["trainers"] = PyFalse

\* lines 300-301: 'trainers' in self.data and self.data['trainers'] is not False
CacheHit(d) == "trainers" \in DOMAIN d /\ d["trainers"] # PyFalse

\* The computation started without marking data.
MarkSkipped(d) == d

\* line 306: self.data['trainers'] = False
MarkInProgress(d) == Put(d, "trainers", PyFalse)

\* The loop over centers started one too late: range(1, M).
TrainerRangeFromOne(M) == 2..M

\* line 310: range(0, M), as 1-based positions
TrainerRange(M) == 1..M

\* line 311 succeeds for every pt: t_map[pt][close_pts[pt]][1] exists
ExtractOK(o, M) ==
    \A c \in TrainerRange(M) :
        /\ c <= Len(o.t_map)
        /\ c <= Len(o.close_pts)
        /\ o.close_pts[c] + 1 <= Len(o.t_map[c])

\* lines 308-311: the list built by the loop, in cluster order
Extract(o, M) ==
    LET R == TrainerRange(M)
        lo == IF R = {} THEN 1 ELSE CHOOSE c \in R : \A e \in R : c <= e
    IN [k \in 1..Cardinality(R) |->
           o.t_map[lo + k - 1][o.close_pts[lo + k - 1] + 1][2]]

\* sorted(trainers) without reverse=True.
SortedAscending(s) == SortSeq(s, LAMBDA x, y : x < y)

\* lines 312-313: sorted(trainers, reverse=True)
SortedReverse(s) == SortSeq(s, LAMBDA x, y : x > y)

\* The record of a call: its arguments, what it raised or returned, the
\* sampler's answer (out) and the data it was handed (seen), whether the
\* line 293 note was printed, and, for find_trainers and train, setup and
\* data as they were before the call.
CallRecord(op, tt, kw, raised, result, out, seen, regressor, arg) ==
    [ op |-> op, traintype |-> tt, kwargs |-> kw, raised |-> raised,
      result |-> result, out |-> out, seen |-> seen,
      warned |-> (op = "find_trainers" /\ "remove" \in kw),
      regressor |-> regressor, arg |-> arg,
      preSetup |-> IF op \in {"find_trainers", "train"} THEN setup ELSE <<>>,
      preData |-> IF op \in {"find_trainers", "train"} THEN data ELSE <<>> ]

NoArg == [kind |-> "none", setup |-> <<>>, data |-> <<>>]

\* lines 287-316.  out is the sampler's answer, used only if line 309 is
\* reached; seen is data as the sampler finds it when invoked.
find_trainers(tt, kw, out) ==
    /\ UNCHANGED <<inpf, setup, grand>>
    /\ IF Lower(tt) \in KMeansNames
       THEN IF CacheHit(data)
            THEN /\ data' = data
                 /\ cachedFor' = cachedFor
                 /\ last' = CallRecord("find_trainers", tt, kw, "", data["trainers"],
                                       NotCalled, <<>>, 0, NoArg)
            ELSE LET d1 == MarkInProgress(data)
                 IN IF "M" \notin DOMAIN setup
                    THEN /\ data' = d1
                         /\ cachedFor' = NoneRows
                         /\ last' = CallRecord("find_trainers", tt, kw, "KeyError",
                                               PyNone, NotCalled, <<>>, 0, NoArg)
                    ELSE IF out.raised # ""
                    THEN /\ data' = d1
                         /\ cachedFor' = NoneRows
                         /\ last' = CallRecord("find_trainers", tt, kw, out.raised,
                                               PyNone, out, d1, 0, NoArg)
                    ELSE IF ~ExtractOK(out, setup["M"])
                    THEN /\ data' = d1
                         /\ cachedFor' = NoneRows
                         /\ last' = CallRecord("find_trainers", tt, kw, "IndexError",
                                               PyNone, out, d1, 0, NoArg)
                    ELSE LET res == SortedReverse(Extract(out, setup["M"]))
                         IN /\ data' = Put(d1, "trainers", PyList(res))
                            /\ cachedFor' = grand.representations
                            /\ last' = CallRecord("find_trainers", tt, kw, "",
                                                  PyList(res), out, d1, 0, NoArg)
       ELSE /\ data' = data
            /\ cachedFor' = cachedFor
            /\ last' = CallRecord("find_trainers", tt, kw, "RuntimeError", PyNone,
                                  NotCalled, <<>>, 0, NoArg)

KwargChoices == { {}, {"remove"} }

\* lines 295-298: K from setup, 30 by default
IterationCap == IF "K" \in DOMAIN setup THEN setup["K"] ELSE DefaultK

\* The sampler's possible answers when the call reaches line 309, and a
\* placeholder when it does not.
Answers(tt, loop) ==
    IF Lower(tt) \in KMeansNames /\ ~CacheHit(data) /\ "M" \in DOMAIN setup
    THEN loop
    ELSE {NotCalled}

FindTrainers ==
    /\ UNCHANGED pesVars
    /\ \E tt \in Names, kw \in KwargChoices :
          \E out \in Answers(tt, k_means_loop(grand.representations, setup["M"],
                                               IterationCap)) :
              find_trainers(tt, kw, out)

FindTrainersUnreliable ==
    /\ UNCHANGED pesVars
    /\ \E tt \in Names, kw \in KwargChoices :
          \E out \in Answers(tt, k_means_loop_unreliable(grand.representations,
                                                          setup["M"], IterationCap)) :
              find_trainers(tt, kw, out)

\* --------------------------------------------------------- Dataset.train
\* krr.train(self, **kwargs): fits the model or signals an ill-conditioned
\* kernel matrix; the dataset's setup and data are read, not replaced.
krr_train == {"", "IllConditionedFit"}

\* lines 318-328
train(tt, kw, fit) ==
    /\ UNCHANGED <<inpf, setup, data, grand, cachedFor>>
    /\ IF Lower(tt) \in KrrNames
       THEN last' = CallRecord("train", tt, kw, fit, PyNone, NotCalled, <<>>, 1, NoArg)
       ELSE last' = CallRecord("train", tt, kw, "RuntimeError", PyNone, NotCalled,
                               <<>>, 0, NoArg)

Train ==
    /\ UNCHANGED pesVars
    /\ \E tt \in Names, fit \in krr_train : train(tt, {}, fit)

\* ---------------------------------------------------------- Dataset.load
\* A JSON document's values, and json.load's reading of them.
JsonFalse == [t |-> "false", v |-> <<>>]
JsonNull == [t |-> "null", v |-> <<>>]
JsonArray(s) == [t |-> "array", v |-> s]

JsonToPy(j) ==
    CASE j.t = "false" -> PyFalse
      [] j.t = "null" -> PyNone
      [] j.t = "array" -> PyList(j.v)

json_load(doc) ==
    [ setup |-> doc.setup,
      data |-> [k \in DOMAIN doc.data |-> JsonToPy(doc.data[k])] ]

SetupChoices ==
    { <<>>, ("M" :> 2) @@ ("K" :> 5) } \cup { ("M" :> m) : m \in {0, MaxN} }

JsonDataChoices ==
    { <<>>, ("trainers" :> JsonFalse), ("trainers" :> JsonNull),
      ("trainers" :> JsonArray(<<MaxN, 0>>)) }

\* What a JSON file at the given path may hold.
FileDocs == [setup : SetupChoices, data : JsonDataChoices]

\* The dicts a caller passes as inpf.
DictArgs ==
    { [kind |-> "dict", setup |-> s, data |-> d] :
        s \in { ("M" :> 2) }, d \in { <<>>, ("trainers" :> PyList(<<1, 0>>)) } }

StrArgs ==
    { [kind |-> "str", setup |-> json_load(doc).setup, data |-> json_load(doc).data] :
        doc \in FileDocs }

OtherArg == [kind |-> "other", setup |-> <<>>, data |-> <<>>]

\* reps / vals: absent, a .npy path, an ndarray or a list of n rows, or
\* an object of another type.
NoArray == [kind |-> "none", rows |-> NoneRows]

ArrayArgs(rows) ==
    { NoArray, [kind |-> "other", rows |-> NoneRows] } \cup
    [kind : {"ndarray"}, rows : rows] \cup
    [kind : {"str", "list"}, rows : {MaxN}]

RepsArgs == ArrayArgs(0..MaxN)

ValsArgs == { NoArray, [kind |-> "other", rows |-> NoneRows],
              [kind |-> "ndarray", rows |-> MaxN] }

\* The argument combinations followed: a new inpf alone, new arrays
\* alone, and a new inpf together with an array argument.
LoadCalls ==
    { <<a, NoArray, NoArray>> : a \in {OtherArg} \cup StrArgs \cup DictArgs } \cup
    ({NoArg} \X RepsArgs \X ValsArgs) \cup
    { <<a, r, NoArray>> : a \in DictArgs \cup { x \in StrArgs : x.setup = <<>> },
                          r \in { x \in RepsArgs : x.kind \in {"other", "list"} } }

\* lines 240-252 (and 193-205): the inpf branch.  The dict branch sets
\* inpf and setup, then reads the unbound local inp and raises.
LoadInpf(a) ==
    CASE a.kind = "str" ->
           [inpf |-> "ds.json", setup |-> a.setup, data |-> a.data,
            cachedFor |-> NoneRows, raised |-> ""]
      [] a.kind = "dict" ->
           [inpf |-> "None", setup |-> a.setup, data |-> data,
            cachedFor |-> cachedFor, raised |-> "UnboundLocalError"]
      [] OTHER ->
           [inpf |-> inpf, setup |-> setup, data |-> data,
            cachedFor |-> cachedFor, raised |-> ""]

\* lines 254-263 / 265-274: one array argument; cur is the stored value
LoadArray(a, cur) ==
    CASE a.kind = "none" -> [rows |-> cur, raised |-> ""]
      [] a.kind = "other" -> [rows |-> cur, raised |-> "RuntimeError"]
      [] OTHER -> [rows |-> a.rows, raised |-> ""]

\* lines 235-275
load(a, reps, vals) ==
    LET i == LoadInpf(a)
        r == IF i.raised # "" THEN [rows |-> grand.representations, raised |-> i.raised]
             ELSE LoadArray(reps, grand.representations)
        v == IF r.raised # "" THEN [rows |-> grand.values, raised |-> r.raised]
             ELSE LoadArray(vals, grand.values)
    IN /\ inpf' = i.inpf
       /\ setup' = i.setup
       /\ data' = i.data
       /\ cachedFor' = i.cachedFor
       /\ grand' = [representations |-> r.rows, values |-> v.rows]
       /\ last' = CallRecord("load", <<>>, {}, v.raised, PyNone, NotCalled, <<>>, 0, a)

Load ==
    /\ UNCHANGED pesVars
    /\ \E c \in LoadCalls : load(c[1], c[2], c[3])

\* ------------------------------------------------------------------ PES
DirNone == [set |-> FALSE, v |-> <<>>]
DirList(l) == [set |-> TRUE, v |-> l]

\* line 110: np.linspace(bot, top, pts); a grid value is the fraction
\* <<numerator, denominator>>.
Linspace(bot, top, pts) ==
    [i \in 1..pts |->
        IF pts = 1 THEN <<bot, 1>>
        ELSE <<bot * (pts - 1) + (i - 1) * (top - bot), pts - 1>>]

\* lines 127, 136: bdir + '/{}'.format(dis)
DirName(bdir, x) == <<bdir, x>>

\* lines 121-124
BaseDir(kwargs) == IF "directory" \in DOMAIN kwargs THEN kwargs["directory"] ELSE "."

GridDirs(p, kwargs) ==
    LET grid == Linspace(p.dis[1], p.dis[2], p.pts)
    IN [i \in 1..p.pts |-> DirName(BaseDir(kwargs), grid[i])]

\* The skip test without the regen flag.
SkipIgnoresRegen(generated, regen) == generated = TRUE

\* line 126: (self.generated == True) and (regen == False)
AlreadyGenerated(generated, regen) == generated = TRUE /\ regen = FALSE

PesRecord(op, flag, raised, result, files, runner) ==
    [ op |-> op, flag |-> flag, raised |-> raised, result |-> result,
      files |-> files, runner |-> runner, pre |-> pes,
      callNo |-> IF op = "generate" THEN hist.gen + 1
                 ELSE IF op = "run" THEN hist.run + 1 ELSE 0 ]

\* lines 91-149.  An empty PES has dis = None and line 106 raises.
generate(regen, kwargs) ==
    /\ hist.gen < MaxCalls
    /\ IF pes.empty
       THEN /\ pes' = pes
            /\ plast' = PesRecord("generate", regen, "TypeError", <<>>, 0, 0)
            /\ hist' = [hist EXCEPT !.gen = @ + 1,
                                    !.regenUsed = @ \/ regen]
       ELSE LET dlist == GridDirs(pes, kwargs)
            IN IF AlreadyGenerated(pes.generated, regen)
               THEN /\ pes' = [pes EXCEPT !.dirlist = DirList(dlist)]
                    /\ plast' = PesRecord("generate", regen, "", dlist, 0, 0)
                    /\ hist' = [hist EXCEPT !.gen = @ + 1,
                                            !.regenUsed = @ \/ regen]
               ELSE /\ pes' = [pes EXCEPT !.dirlist = DirList(dlist),
                                          !.generated = TRUE]
                    /\ plast' = PesRecord("generate", regen, "", dlist, Len(dlist), 0)
                    /\ hist' = [hist EXCEPT !.gen = @ + 1,
                                            !.regenUsed = @ \/ regen,
                                            !.writes = @ + (IF Len(dlist) > 0 THEN 1 ELSE 0)]

Generate ==
    /\ UNCHANGED dsVars
    /\ \E regen \in BOOLEAN, kwargs \in { <<>>, ("directory" :> "scan") } :
          generate(regen, kwargs)

\* The run test without the complete flag.
RunIgnoresComplete(dirlist, complete, restart) == dirlist.set

\* lines 159-166: the branch that reaches datahelper.runner
ShouldRun(dirlist, complete, restart) ==
    /\ dirlist.set
    /\ ~(complete = TRUE /\ restart = FALSE)

\* lines 151-170
run(restart) ==
    /\ hist.run < MaxCalls
    /\ IF ShouldRun(pes.dirlist, pes.complete, restart)
       THEN /\ pes' = [pes EXCEPT !.complete = TRUE]
            /\ plast' = PesRecord("run", restart, "", <<>>, 0, 1)
            /\ hist' = [hist EXCEPT !.run = @ + 1,
                                    !.restartUsed = @ \/ restart,
                                    !.runner = @ + 1]
       ELSE /\ pes' = pes
            /\ plast' = PesRecord("run", restart, "", <<>>, 0, 0)
            /\ hist' = [hist EXCEPT !.run = @ + 1,
                                    !.restartUsed = @ \/ restart]

Run ==
    /\ UNCHANGED dsVars
    /\ \E restart \in BOOLEAN : run(restart)

\* lines 66, 154: a directory list pushed into PES.dirlist by the caller
SetDirlist ==
    /\ UNCHANGED dsVars
    /\ \E l \in { <<>>, <<DirName("jobs", <<0, 1>>)>> } :
          /\ pes' = [pes EXCEPT !.dirlist = DirList(l)]
          /\ plast' = PesRecord("set_dirlist", FALSE, "", l, 0, 0)
          /\ hist' = hist

\* ------------------------------------------------------- initial states
\* lines 20-67: PES(inp) from a JSON file or a dict, or the empty PES
DisChoices == { <<0, 6>>, <<2, 2>> }

EmptyPES ==
    [ empty |-> TRUE, pts |-> 0, dis |-> <<0, 0>>, generated |-> FALSE,
      complete |-> FALSE, dirlist |-> DirNone ]

PESInit ==
    /\ pes \in {EmptyPES} \cup
               [ empty : {FALSE}, pts : 0..MaxPts, dis : DisChoices,
                 generated : BOOLEAN, complete : BOOLEAN, dirlist : {DirNone} ]
    /\ hist = [gen |-> 0, run |-> 0, regenUsed |-> FALSE, restartUsed |-> FALSE,
               writes |-> 0, runner |-> 0]
    /\ plast = PesRecord("init", FALSE, "", <<>>, 0, 0)

PESIdle ==
    /\ pes = EmptyPES
    /\ hist = [gen |-> 0, run |-> 0, regenUsed |-> FALSE, restartUsed |-> FALSE,
               writes |-> 0, runner |-> 0]
    /\ plast = PesRecord("init", FALSE, "", <<>>, 0, 0)

\* lines 182-233: Dataset() or Dataset(inpf=<path>, reps=..., vals=...);
\* the other argument forms raise or leave setup/data unset.
DatasetInit ==
    /\ cachedFor = NoneRows
    /\ \/ /\ inpf = "None"
          /\ setup = <<>>
          /\ data = <<>>
          /\ grand = [representations |-> NoneRows, values |-> NoneRows]
       \/ \E a \in StrArgs, reps \in RepsArgs, vals \in ValsArgs :
             /\ reps.kind # "other"
             /\ vals.kind # "other"
             /\ inpf = "ds.json"
             /\ setup = a.setup
             /\ data = a.data
             /\ grand = [representations |-> reps.rows, values |-> vals.rows]
    /\ last = CallRecord("init", <<>>, {}, "", PyNone, NotCalled, <<>>, 0, NoArg)

DatasetIdle ==
    /\ cachedFor = NoneRows
    /\ inpf = "None"
    /\ setup = <<>>
    /\ data = <<>>
    /\ grand = [representations |-> NoneRows, values |-> NoneRows]
    /\ last = CallRecord("init", <<>>, {}, "", PyNone, NotCalled, <<>>, 0, NoArg)

Init == DatasetInit /\ PESIdle

Next == FindTrainers \/ Train \/ Load

\* The Dataset with the sampler behaving as specified.
Spec == Init /\ [][Next]_vars

NextUnreliable == FindTrainersUnreliable \/ Train \/ Load

\* The Dataset with a sampler that may raise or return malformed answers.
SpecUnreliable == Init /\ [][NextUnreliable]_vars

InitPES == DatasetIdle /\ PESInit

NextPES == Generate \/ Run \/ SetDirlist

\* The PES object under generate, run and pushed directory lists.
SpecPES == InitPES /\ [][NextPES]_vars

\* =================================================================
\* Properties
\* =================================================================

\* Two characters that are the same letter in either case, or equal.
SameLetter(x, y) ==
    x = y \/ \E i \in 1..26 : {x, y} = {UpperChars[i], LowerChars[i]}

\* s spells the lowercase name n in some mix of cases.
CaseVariantOf(s, n) ==
    Len(s) = Len(n) /\ \A i \in 1..Len(n) : SameLetter(s[i], n[i])

FindAccepted(tt) == \E n \in KMeansNames : CaseVariantOf(tt, n)
TrainAccepted(tt) == \E n \in KrrNames : CaseVariantOf(tt, n)

\* data held a 'trainers' entry other than False when the call began.
HadCache == "trainers" \in DOMAIN last.preData /\ last.preData["trainers"] # PyFalse

FindCall == last.op = "find_trainers" /\ FindAccepted(last.traintype)

Descending(v) == \A i, j \in 1..Len(v) : i < j => v[i] >= v[j]
StrictlyDescending(v) == \A i, j \in 1..Len(v) : i < j => v[i] > v[j]

\* C1: with a supported k-means name and data['trainers'] present and not
\* False, find_trainers returns exactly the stored value, does not invoke
\* the sampler and leaves setup and data as they were, whatever keyword
\* options (including 'remove') are passed; so repeated calls keep
\* returning the same list.
C1_CacheHitIdempotent ==
    (FindCall /\ HadCache) =>
        /\ last.raised = ""
        /\ last.result = last.preData["trainers"]
        /\ last.out = NotCalled
        /\ setup = last.preSetup
        /\ data = last.preData

\* A cache hit with the 'remove' option on a list computed by an earlier call.
C1_Witness ==
    /\ FindCall /\ HadCache
    /\ "remove" \in last.kwargs
    /\ cachedFor # NoneRows
    /\ last.result.t = "list"
    /\ Len(last.result.v) >= 2

\* The index sets of the answer's clusters.
ClusterSet(o, c) == { o.t_map[c][k][2] : k \in 1..Len(o.t_map[c]) }

\* The sampler returned M clusters that partition 0..N-1 and one in-range
\* rank per cluster.
WellFormed(o, N, M) ==
    /\ o.raised = ""
    /\ N # NoneRows
    /\ Len(o.t_map) = M
    /\ Len(o.close_pts) = M
    /\ \A c \in 1..M : o.close_pts[c] >= 0 /\ o.close_pts[c] < Len(o.t_map[c])
    /\ \A c, e \in 1..M : c # e => ClusterSet(o, c) \cap ClusterSet(o, e) = {}
    /\ UNION { ClusterSet(o, c) : c \in 1..M } = 0..(N - 1)

\* C2: when the computation runs (trainers absent or False) and the sampler
\* returns M clusters partitioning 0..N-1 with an in-range rank for each,
\* find_trainers returns exactly M distinct indices, the chosen candidate
\* t_map[c][close_pts[c]][1] of every cluster c, in strictly descending order.
C2_OnePerClusterDescending ==
    (FindCall /\ ~HadCache /\ "M" \in DOMAIN setup
       /\ WellFormed(last.out, grand.representations, setup["M"])) =>
        /\ last.raised = ""
        /\ last.result.t = "list"
        /\ Len(last.result.v) = setup["M"]
        /\ StrictlyDescending(last.result.v)
        /\ { last.result.v[i] : i \in 1..Len(last.result.v) } =
               { last.out.t_map[c][last.out.close_pts[c] + 1][2] : c \in 1..setup["M"] }
        /\ \A c \in 1..setup["M"] :
               Cardinality({ i \in 1..Len(last.result.v) :
                               last.result.v[i] \in ClusterSet(last.out, c) }) = 1

\* Two or more clusters, one of them represented by a candidate that is
\* not its nearest.
C2_Witness ==
    /\ FindCall /\ ~HadCache /\ "M" \in DOMAIN setup
    /\ WellFormed(last.out, grand.representations, setup["M"])
    /\ setup["M"] >= 2
    /\ \E c \in 1..setup["M"] : last.out.close_pts[c] > 0
    /\ last.result.t = "list"

\* C3: a find_trainers call that starts a computation hands the sampler a
\* data whose 'trainers' is already False; if the call succeeds,
\* data['trainers'] is the returned descending list of M indices; if the
\* sampler or the extraction fails, data['trainers'] is False, neither
\* absent nor a partial list; and a call that finds False invokes the
\* sampler instead of returning a cached value.
C3_FalseUntilComplete ==
    (FindCall /\ ~HadCache) =>
        /\ last.out # NotCalled =>
              "trainers" \in DOMAIN last.seen /\ last.seen["trainers"] = PyFalse
        /\ last.raised = "" =>
              /\ last.result.t = "list"
              /\ Len(last.result.v) = setup["M"]
              /\ Descending(last.result.v)
              /\ "trainers" \in DOMAIN data /\ data["trainers"] = last.result
        /\ last.raised # "" =>
              "trainers" \in DOMAIN data /\ data["trainers"] = PyFalse
        /\ ("trainers" \in DOMAIN last.preData /\ "M" \in DOMAIN last.preSetup) =>
              last.out # NotCalled

\* The extraction failed on a malformed answer in a call that began with
\* no 'trainers' entry at all.
C3_Witness ==
    /\ FindCall /\ ~HadCache
    /\ "trainers" \notin DOMAIN last.preData
    /\ last.out.raised = ""
    /\ last.raised = "IndexError"
    /\ data["trainers"] = PyFalse

\* C4: once trainers were computed for N rows and the grand set was then
\* reduced to N' < N rows, find_trainers with 'remove' prints the note and
\* returns no index >= N'.
C4_NoStaleIndexReturned ==
    (FindCall /\ HadCache /\ "remove" \in last.kwargs
       /\ cachedFor # NoneRows /\ grand.representations # NoneRows
       /\ grand.representations < cachedFor) =>
        /\ last.warned
        /\ (last.raised = "" /\ last.result.t = "list") =>
              \A i \in 1..Len(last.result.v) : last.result.v[i] < grand.representations

\* The cached list does not fit the loaded representations: its length is
\* not setup['M'] or it holds an index outside 0..N-1.
Inconsistent(l) ==
    \/ "M" \in DOMAIN setup /\ Len(l) # setup["M"]
    \/ /\ grand.representations # NoneRows
       /\ \E i \in 1..Len(l) : l[i] < 0 \/ l[i] >= grand.representations

\* C5: when the cached list is inconsistent with the loaded
\* representations, find_trainers raises StateInconsistency rather than
\* returning the list.
C5_InconsistentCacheSurfaced ==
    (FindCall /\ HadCache /\ last.preData["trainers"].t = "list"
       /\ Inconsistent(last.preData["trainers"].v)) =>
        last.raised = "StateInconsistency"

\* C6: find_trainers raises for every traintype that is not a case variant
\* of 'kmeans', 'k-means' or 'k_means', and train for every traintype that
\* is not a case variant of 'krr' or 'kernel_ridge'; then neither the
\* sampler nor the regressor is invoked and setup and data are left as
\* they were; every case variant of a supported name is accepted.
C6_ClosedDispatch ==
    /\ (last.op = "find_trainers" /\ ~FindAccepted(last.traintype)) =>
          /\ last.raised = "RuntimeError"
          /\ last.out = NotCalled /\ last.regressor = 0
          /\ setup = last.preSetup /\ data = last.preData
    /\ (last.op = "train" /\ ~TrainAccepted(last.traintype)) =>
          /\ last.raised = "RuntimeError"
          /\ last.out = NotCalled /\ last.regressor = 0
          /\ setup = last.preSetup /\ data = last.preData
    /\ (last.op = "find_trainers" /\ FindAccepted(last.traintype)) =>
          last.raised # "RuntimeError"
    /\ (last.op = "train" /\ TrainAccepted(last.traintype)) =>
          last.raised # "RuntimeError" /\ last.regressor = 1

\* An unknown name refused by find_trainers while a computed list is cached.
C6_Witness ==
    /\ last.op = "find_trainers"
    /\ ~FindAccepted(last.traintype)
    /\ last.raised = "RuntimeError"
    /\ HadCache /\ cachedFor # NoneRows

\* The list N-1, ..., 0.
AllDescending(N) == [i \in 1..N |-> N - i]

C8_DictLoadCompletes ==
    (last.op = "load" /\ last.arg.kind = "dict") =>
        /\ last.raised = ""
        /\ inpf = "None"
        /\ setup = last.arg.setup
        /\ data = last.arg.data

\* The directories of the PES grid: one per point, each under one base
\* directory and named by the grid value.
IsGridDirs(l) ==
    /\ Len(l) = pes.pts
    /\ \A i \in 1..Len(l) :
          /\ l[i][1] = l[1][1]
          /\ l[i][2] = Linspace(pes.dis[1], pes.dis[2], pes.pts)[i]

GenerateReturned == plast.op = "generate" /\ plast.raised = ""

\* C9: generate with generated True and regen False writes no input file,
\* sets dirlist to and returns the pts grid directories and leaves
\* generated and complete alone; otherwise it writes one input file per
\* grid point, sets dirlist to the pts directories and generated to True.
\* Without regen=True only the first generate call writes files, and
\* generated never goes from True to False.
C9_GenerateWritesWhenNeeded ==
    /\ (GenerateReturned /\ plast.pre.generated /\ ~plast.flag) =>
          /\ plast.files = 0
          /\ IsGridDirs(plast.result)
          /\ pes.dirlist = DirList(plast.result)
          /\ pes.generated = plast.pre.generated
          /\ pes.complete = plast.pre.complete
    /\ (GenerateReturned /\ ~(plast.pre.generated /\ ~plast.flag)) =>
          /\ plast.files = pes.pts
          /\ IsGridDirs(plast.result)
          /\ pes.dirlist = DirList(plast.result)
          /\ pes.generated
    /\ ~hist.regenUsed =>
          /\ hist.writes <= 1
          /\ (plast.op = "generate" /\ plast.files > 0) => plast.callNo = 1
    /\ plast.pre.generated => pes.generated

\* A later generate call without regen that found the files generated by
\* the first call and wrote nothing.
C9_Witness ==
    /\ GenerateReturned
    /\ ~hist.regenUsed
    /\ hist.writes = 1
    /\ plast.callNo >= 2
    /\ plast.files = 0
    /\ Len(plast.result) >= 2

\* C10: run invokes the job runner exactly when dirlist is set and
\* (complete is False or restart is True), and sets complete to True
\* exactly then; the runner is never invoked while dirlist is None, at
\* most once without restart=True, and complete never goes from True to
\* False under generate or run.
C10_RunOnlyWhenNeeded ==
    /\ plast.op = "run" =>
          /\ plast.runner = 1 <=>
                (plast.pre.dirlist.set /\ (~plast.pre.complete \/ plast.flag))
          /\ plast.runner = 1 => pes.complete
          /\ plast.runner = 0 => pes.complete = plast.pre.complete
    /\ plast.op # "run" => plast.runner = 0
    /\ ~hist.restartUsed => hist.runner <= 1
    /\ plast.pre.complete => pes.complete

\* A second run call without restart that found the jobs complete and did
\* not invoke the runner again.
C10_Witness ==
    /\ plast.op = "run"
    /\ ~hist.restartUsed
    /\ hist.runner = 1
    /\ plast.callNo >= 2
    /\ plast.runner = 0
    /\ plast.pre.dirlist.set

====
